---------------------------- MODULE Spec2Model ----------------------------
(***************************************************************************)
(* Emotion Pattern API (src/app.py): the /generate-emotion-pattern handler, *)
(* the AI pattern generator, the rule-based classifier and safe_float.      *)
(*                                                                          *)
(* Conventions of the model                                                 *)
(*   - a real number is an integer holding the value times 100              *)
(*     (0.12 is 12, 2.0 is 200, 25 is 2500, 60 is 6000);                    *)
(*   - a Python float is a record [c, v]: c is "fin", "nan", "posinf" or    *)
(*     "neginf", v the scaled value of a finite one;                        *)
(*   - a Python str is a sequence of non-empty chunks: the emotion text and *)
(*     the keywords are sequences of single characters, a literal of the    *)
(*     code or of a JSON document is one chunk;                             *)
(*   - a JSON / Python value is a record [t, n, s] (PyVal);                 *)
(*   - the result of a call that may raise is a record [exc, val].          *)
(***************************************************************************)
EXTENDS Integers, Sequences, FiniteSets, TLC

VARIABLES
    model,   \* the module-level Gemini handle: TRUE when set, FALSE when None
    req,     \* request id -> the request, its handler's frame and its response
    heap,    \* dictionary cell -> the pattern dictionary stored in it
    call     \* the call of a pure function under check (safe_float, analyze_emotion_simple)

vars == <<model, req, heap, call>>

-----------------------------------------------------------------------------
(* Bounds *)

\* concurrent requests in SpecConc
NumRequests == 2
\* fragments concatenated into a text given to analyze_emotion_simple in SpecSimple
MaxFragments == 3
\* tokens of an AI response text enumerated for the '{' .. '}' extraction
MaxRespLen == 3

-----------------------------------------------------------------------------
(* Python values *)

Fin(n) == [c |-> "fin", v |-> n]
NaN == [c |-> "nan", v |-> 0]
PosInf == [c |-> "posinf", v |-> 0]
NegInf == [c |-> "neginf", v |-> 0]

Num(n) == [t |-> "num", n |-> n, s |-> <<>>]
BigInt == [t |-> "bigint", n |-> 0, s |-> <<>>]
JNaN == [t |-> "nan", n |-> 0, s |-> <<>>]
JInf == [t |-> "inf", n |-> 0, s |-> <<>>]
JNegInf == [t |-> "neginf", n |-> 0, s |-> <<>>]
Null == [t |-> "null", n |-> 0, s |-> <<>>]
Bool(b) == [t |-> "bool", n |-> IF b THEN 1 ELSE 0, s |-> <<>>]
Str(s) == [t |-> "str", n |-> 0, s |-> s]
List == [t |-> "list", n |-> 0, s |-> <<>>]
Obj == [t |-> "object", n |-> 0, s |-> <<>>]

Ret(v) == [exc |-> "none", val |-> v]
Raise(e) == [exc |-> e, val |-> Null]

\* a < b on floats: every comparison with nan is False
FLt(a, b) ==
    CASE a.c = "nan" \/ b.c = "nan" -> FALSE
      [] a.c = "neginf" -> b.c # "neginf"
      [] a.c = "posinf" -> FALSE
      [] b.c = "neginf" -> FALSE
      [] b.c = "posinf" -> TRUE
      [] OTHER -> a.v < b.v

\* Python's min(a, b): a unless b < a
PyMin(a, b) == IF FLt(b, a) THEN b ELSE a

\* Python's max(a, b): a unless b > a
PyMax(a, b) == IF FLt(a, b) THEN b ELSE a

\* float(s) of a str: the numeric literals of the inputs, ValueError otherwise
ParseFloatStr(s) ==
    CASE s = <<"1.5">> -> Ret(Fin(150))
      [] s = <<"99">> -> Ret(Fin(9900))
      [] s = <<"-3">> -> Ret(Fin(-300))
      [] s = <<"nan">> -> Ret(NaN)
      [] s = <<"inf">> -> Ret(PosInf)
      [] OTHER -> Raise("ValueError")

\* float(value)
PyFloat(value) ==
    CASE value.t = "num" -> Ret(Fin(value.n))
      [] value.t = "bool" -> Ret(Fin(100 * value.n))
      [] value.t = "nan" -> Ret(NaN)
      [] value.t = "inf" -> Ret(PosInf)
      [] value.t = "neginf" -> Ret(NegInf)
      [] value.t = "bigint" -> Raise("OverflowError")
      [] value.t = "str" -> ParseFloatStr(value.s)
      [] OTHER -> Raise("TypeError")

\* mutant of safe_float: the converted number is returned without clamping
safe_float_unclamped(value, default, min_val, max_val) ==
    LET r == PyFloat(value)
    IN  IF r.exc = "none" THEN Ret(r.val)
        ELSE IF r.exc \in {"ValueError", "TypeError"} THEN Ret(default)
        ELSE Raise(r.exc)

safe_float(value, default, min_val, max_val) ==
    LET r == PyFloat(value)
    IN  IF r.exc = "none" THEN Ret(PyMax(min_val, PyMin(max_val, r.val)))
        ELSE IF r.exc \in {"ValueError", "TypeError"} THEN Ret(default)
        ELSE Raise(r.exc)

-----------------------------------------------------------------------------
(* Python strings *)

Whitespace == {" ", "\t", "\n"}

UpperCase == <<"A", "B", "C", "D", "E", "F", "G", "H", "I", "J", "K", "L", "M",
               "N", "O", "P", "Q", "R", "S", "T", "U", "V", "W", "X", "Y", "Z">>
LowerCase == <<"a", "b", "c", "d", "e", "f", "g", "h", "i", "j", "k", "l", "m",
               "n", "o", "p", "q", "r", "s", "t", "u", "v", "w", "x", "y", "z">>

LowerChar(ch) ==
    IF \E i \in 1..26 : UpperCase[i] = ch
    THEN LowerCase[CHOOSE i \in 1..26 : UpperCase[i] = ch]
    ELSE ch

\* str.lower()
lower(s) == [i \in 1..Len(s) |-> LowerChar(s[i])]

\* mutant of strip: the text is kept as sent
strip_none(s) == s

\* str.strip()
strip(s) ==
    LET keep == {i \in 1..Len(s) : s[i] \notin Whitespace}
    IN  IF keep = {} THEN <<>>
        ELSE LET a == CHOOSE i \in keep : \A j \in keep : i <= j
                 b == CHOOSE i \in keep : \A j \in keep : i >= j
             IN  SubSeq(s, a, b)

\* word in text
Contains(text, word) ==
    \E i \in 1..(Len(text) - Len(word) + 1) : SubSeq(text, i, i + Len(word) - 1) = word

-----------------------------------------------------------------------------
(* analyze_emotion_simple: the rule-based classifier *)

Standard == Str(<<"standard">>)
Predator == Str(<<"predator">>)
Swarm == Str(<<"swarm">>)
Spiral == Str(<<"spiral">>)

\* the keyword list of each branch of the if / elif chain, in the chain's order
Keywords ==
    <<
      \* 1: high energy
      {<<"e", "x", "c", "i", "t", "e", "d">>,
       <<"e", "n", "e", "r", "g", "e", "t", "i", "c">>,
       <<"m", "a", "n", "i", "c">>,
       <<"h", "y", "p", "e", "r">>,
       <<"f", "r", "a", "n", "t", "i", "c">>,
       <<"w", "i", "l", "d">>},
      \* 2: anger
      {<<"a", "n", "g", "r", "y">>,
       <<"r", "a", "g", "e">>,
       <<"f", "u", "r", "i", "o", "u", "s">>,
       <<"a", "g", "g", "r", "e", "s", "s", "i", "v", "e">>,
       <<"v", "i", "o", "l", "e", "n", "t">>},
      \* 3: sadness
      {<<"s", "a", "d">>,
       <<"d", "e", "p", "r", "e", "s", "s", "e", "d">>,
       <<"m", "e", "l", "a", "n", "c", "h", "o", "l", "y">>,
       <<"s", "o", "r", "r", "o", "w">>,
       <<"g", "r", "i", "e", "f">>},
      \* 4: anxiety
      {<<"a", "n", "x", "i", "o", "u", "s">>,
       <<"n", "e", "r", "v", "o", "u", "s">>,
       <<"s", "c", "a", "r", "e", "d">>,
       <<"f", "e", "a", "r">>,
       <<"p", "a", "n", "i", "c">>},
      \* 5: love
      {<<"l", "o", "v", "e">>,
       <<"a", "f", "f", "e", "c", "t", "i", "o", "n">>,
       <<"r", "o", "m", "a", "n", "c", "e">>,
       <<"t", "e", "n", "d", "e", "r">>,
       <<"c", "a", "r", "i", "n", "g">>},
      \* 6: joy
      {<<"h", "a", "p", "p", "y">>,
       <<"j", "o", "y">>,
       <<"c", "h", "e", "e", "r", "f", "u", "l">>,
       <<"b", "l", "i", "s", "s">>,
       <<"e", "l", "a", "t", "e", "d">>},
      \* 7: calm
      {<<"c", "a", "l", "m">>,
       <<"p", "e", "a", "c", "e", "f", "u", "l">>,
       <<"s", "e", "r", "e", "n", "e">>,
       <<"t", "r", "a", "n", "q", "u", "i", "l">>,
       <<"z", "e", "n">>},
      \* 8: confusion
      {<<"c", "o", "n", "f", "u", "s", "e", "d">>,
       <<"c", "h", "a", "o", "s">>,
       <<"d", "i", "s", "o", "r", "d", "e", "r">>,
       <<"r", "a", "n", "d", "o", "m">>,
       <<"l", "o", "s", "t">>}
    >>

\* any(word in text_lower for word in <the list of branch k>)
AnyWord(k, text_lower) == \E word \in Keywords[k] : Contains(text_lower, word)

\* mutant of CategoryOf: the joy branch is tested before the anger branch
CategoryOf_joy_first(text_lower) ==
    IF AnyWord(1, text_lower) THEN 1
    ELSE IF AnyWord(6, text_lower) THEN 6
    ELSE IF AnyWord(2, text_lower) THEN 2
    ELSE IF AnyWord(3, text_lower) THEN 3
    ELSE IF AnyWord(4, text_lower) THEN 4
    ELSE IF AnyWord(5, text_lower) THEN 5
    ELSE IF AnyWord(7, text_lower) THEN 7
    ELSE IF AnyWord(8, text_lower) THEN 8
    ELSE 0

\* the branch of the if / elif chain that is taken (0: none)
CategoryOf(text_lower) ==
    IF AnyWord(1, text_lower) THEN 1
    ELSE IF AnyWord(2, text_lower) THEN 2
    ELSE IF AnyWord(3, text_lower) THEN 3
    ELSE IF AnyWord(4, text_lower) THEN 4
    ELSE IF AnyWord(5, text_lower) THEN 5
    ELSE IF AnyWord(6, text_lower) THEN 6
    ELSE IF AnyWord(7, text_lower) THEN 7
    ELSE IF AnyWord(8, text_lower) THEN 8
    ELSE 0

\* the dictionary built before the chain
DefaultPattern ==
    [speed |-> Fin(80), cohesion |-> Fin(12), separation |-> Fin(2500),
     curve |-> Fin(30), behavior |-> Standard]

\* the assignments of branch k, made on the dictionary `pattern`
Override(pattern, k) ==
    CASE k = 1 -> [pattern EXCEPT !.speed = Fin(180), !.curve = Fin(80), !.behavior = Swarm]
      [] k = 2 -> [pattern EXCEPT !.speed = Fin(150), !.separation = Fin(4500),
                                  !.behavior = Predator]
      [] k = 3 -> [pattern EXCEPT !.speed = Fin(40), !.curve = Fin(10), !.cohesion = Fin(5)]
      [] k = 4 -> [pattern EXCEPT !.speed = Fin(120), !.separation = Fin(3500),
                                  !.curve = Fin(60), !.behavior = Predator]
      [] k = 5 -> [pattern EXCEPT !.speed = Fin(90), !.cohesion = Fin(25),
                                  !.separation = Fin(1500), !.behavior = Standard]
      [] k = 6 -> [pattern EXCEPT !.speed = Fin(130), !.cohesion = Fin(18),
                                  !.curve = Fin(50), !.behavior = Swarm]
      [] k = 7 -> [pattern EXCEPT !.speed = Fin(60), !.curve = Fin(20), !.cohesion = Fin(8)]
      [] k = 8 -> [pattern EXCEPT !.speed = Fin(100), !.curve = Fin(90),
                                  !.separation = Fin(2000), !.behavior = Spiral]
      [] OTHER -> pattern

\* the interpretation before the chain: f"Simple pattern for '{emotion_text}'"
DefaultInterpretation(emotion_text) ==
    Str(<<"Simple pattern for '">> \o emotion_text \o <<"'">>)

\* the interpretation after branch k
Interpretation(interpretation, k) ==
    CASE k = 1 -> Str(<<"High energy, chaotic movement">>)
      [] k = 2 -> Str(<<"Aggressive, confrontational movement">>)
      [] k = 3 -> Str(<<"Slow, isolated, downward movement">>)
      [] k = 4 -> Str(<<"Nervous, erratic, avoidant movement">>)
      [] k = 5 -> Str(<<"Gentle, clustering, harmonious movement">>)
      [] k = 6 -> Str(<<"Joyful, bouncy, grouped movement">>)
      [] k = 7 -> Str(<<"Slow, peaceful, flowing movement">>)
      [] k = 8 -> Str(<<"Chaotic, unpredictable movement">>)
      [] OTHER -> interpretation

analyze_emotion_simple(emotion_text) ==
    LET k == CategoryOf(lower(emotion_text))
    IN  [pattern |-> Override(DefaultPattern, k),
         interpretation |-> Interpretation(DefaultInterpretation(emotion_text), k)]

-----------------------------------------------------------------------------
(* analyze_emotion_with_ai: the '{' .. '}' slice, json.loads, validation *)

\* A response text is a sequence of tokens: "{", "}", prose, or one member
\* "key": value of a JSON object (the commas between members are implied).
Tok(kind, key, val) == [tok |-> kind, key |-> key, val |-> val]
LBrace == Tok("{", "", Null)
RBrace == Tok("}", "", Null)
Prose == Tok("text", "", Null)
Member(key, val) == Tok("member", key, val)

\* str.find(ch): the 0-based index of the first ch, -1 when there is none
find(text, ch) ==
    LET at == {i \in 1..Len(text) : text[i].tok = ch}
    IN  IF at = {} THEN -1 ELSE (CHOOSE i \in at : \A j \in at : i <= j) - 1

\* str.rfind(ch): the 0-based index of the last ch, -1 when there is none
rfind(text, ch) ==
    LET at == {i \in 1..Len(text) : text[i].tok = ch}
    IN  IF at = {} THEN -1 ELSE (CHOOSE i \in at : \A j \in at : i >= j) - 1

\* text[start:end], 0-based and end-exclusive
Slice(text, start, end) == SubSeq(text, start + 1, end)

\* json.loads of a slice that starts at a '{': a dict (a duplicated key keeps
\* its last value), or JSONDecodeError
json_loads(json_str) ==
    LET n == Len(json_str)
        inner == 2..(n - 1)
    IN  IF /\ n >= 2
           /\ json_str[1] = LBrace
           /\ json_str[n] = RBrace
           /\ \A i \in inner : json_str[i].tok = "member"
        THEN Ret([key \in {json_str[i].key : i \in inner} |->
                    json_str[CHOOSE i \in inner :
                                /\ json_str[i].key = key
                                /\ \A j \in inner : json_str[j].key = key => j <= i].val])
        ELSE Raise("JSONDecodeError")

\* dict.get(key, default)
Get(d, key, default) == IF key \in DOMAIN d THEN d[key] ELSE default

valid_behaviors == {Standard, Predator, Swarm, Spiral}

\* if pattern['behavior'] not in valid_behaviors: pattern['behavior'] = 'standard'
ValidBehavior(behavior) == IF behavior \in valid_behaviors THEN behavior ELSE Standard

\* f'AI interpretation of "{emotion_text}"'
AIDefaultInterpretation(emotion_text) ==
    Str(<<"AI interpretation of \"">> \o emotion_text \o <<"\"">>)

\* the body of the try block of analyze_emotion_with_ai on the response text:
\* the pattern and the interpretation, or the exception raised in it
ParseAIResponse(emotion_text, response_text) ==
    LET start == find(response_text, "{")
        end == rfind(response_text, "}") + 1
    IN  IF start >= 0 /\ end > start
        THEN LET loaded == json_loads(Slice(response_text, start, end))
                 ai_data == loaded.val
                 speed == safe_float(Get(ai_data, "speed", Num(100)),
                                     Fin(100), Fin(20), Fin(200))
                 cohesion == safe_float(Get(ai_data, "cohesion", Num(12)),
                                        Fin(12), Fin(0), Fin(30))
                 separation == safe_float(Get(ai_data, "separation", Num(2500)),
                                          Fin(2500), Fin(1000), Fin(6000))
                 curve == safe_float(Get(ai_data, "curve", Num(30)),
                                     Fin(30), Fin(0), Fin(100))
             IN  IF loaded.exc # "none" THEN Raise(loaded.exc)
                 ELSE IF speed.exc # "none" THEN Raise(speed.exc)
                 ELSE IF cohesion.exc # "none" THEN Raise(cohesion.exc)
                 ELSE IF separation.exc # "none" THEN Raise(separation.exc)
                 ELSE IF curve.exc # "none" THEN Raise(curve.exc)
                 ELSE Ret([pattern |->
                             [speed |-> speed.val, cohesion |-> cohesion.val,
                              separation |-> separation.val, curve |-> curve.val,
                              behavior |-> ValidBehavior(Get(ai_data, "behavior", Standard))],
                           interpretation |->
                             Get(ai_data, "interpretation",
                                 AIDefaultInterpretation(emotion_text))])
        ELSE Raise("ValueError")

-----------------------------------------------------------------------------
(* Inputs: request bodies and behaviours of the external AI call *)

\* a request body: k is "invalid" (get_json raises), "value" (a JSON document
\* that is no object, held in emo) or "object" (has: the key 'emotion' is there)
Body(k, has, emo) == [k |-> k, has |-> has, emo |-> emo]

RequestTexts ==
    { <<>>,
      <<" ">>,
      <<" ", "\t", "\n">>,
      <<"s", "a", "d">>,
      <<" ", "H", "a", "p", "p", "y", " ">>,
      <<"e", "n", "r", "a", "g", "e", "d">>,
      <<"z", "e", "n">>,
      <<"o", "k">> }

Bodies ==
    {Body("invalid", FALSE, Null)}
    \cup {Body("value", FALSE, v) : v \in {Null, List, Num(500), Str(<<"s", "a", "d">>)}}
    \cup {Body("object", FALSE, Null)}
    \cup {Body("object", TRUE, v) : v \in {Null, Num(500), Bool(TRUE), List, Obj}}
    \cup {Body("object", TRUE, Str(t)) : t \in RequestTexts}

\* values a member of the AI's JSON object may hold
RawValues ==
    { Num(-500), Num(0), Num(15), Num(150), Num(9900), BigInt, JNaN, JInf, JNegInf,
      Null, Bool(TRUE), Bool(FALSE), List, Obj,
      Str(<<>>), Str(<<"1.5">>), Str(<<"nan">>), Str(<<"fast">>),
      Str(<<"predator">>), Str(<<"unknown">>), Str(<<"Dots drift apart">>) }

Fields == {"speed", "cohesion", "separation", "curve", "behavior", "interpretation"}

\* every text of at most MaxRespLen tokens over braces, prose and one member
StructResponses ==
    UNION {[1..n -> {LBrace, RBrace, Prose, Member("speed", Num(150))}] : n \in 0..MaxRespLen}

\* one member, every field with every value
FieldResponses == {<<LBrace, Member(k, v), RBrace>> : k \in Fields, v \in RawValues}

\* whole answers: the requested object inside prose, an object with an
\* out-of-range speed and an unknown behaviour, and a duplicated key
FullResponses ==
    { <<Prose, LBrace, Member("speed", Num(120)), Member("cohesion", Num(15)),
        Member("separation", Num(2500)), Member("curve", Num(40)),
        Member("behavior", Spiral), Member("interpretation", Str(<<"Dots circle">>)),
        RBrace, Prose>>,
      <<LBrace, Member("speed", Num(9900)), Member("behavior", Str(<<"unknown">>)), RBrace>>,
      <<LBrace, Member("curve", Num(10)), Member("curve", Num(-700)), RBrace>> }

\* what the call model.generate_content(prompt) does: it raises, it returns a
\* response text, or it never returns
AIOutcome(kind, exc, resp) == [kind |-> kind, exc |-> exc, resp |-> resp]

AIOutcomes ==
    {AIOutcome("raise", e, <<>>) : e \in {"ServiceError", "ValueError"}}
    \cup {AIOutcome("return", "none", t) :
            t \in StructResponses \cup FieldResponses \cup FullResponses}
    \cup {AIOutcome("hang", "none", <<>>)}

-----------------------------------------------------------------------------
(* State *)

NoPattern ==
    [speed |-> Fin(0), cohesion |-> Fin(0), separation |-> Fin(0), curve |-> Fin(0),
     behavior |-> Null]

NoResponse ==
    [status |-> 0, success |-> FALSE, emotion |-> <<>>, pattern |-> NoPattern,
     interpretation |-> Null, ai_used |-> FALSE, error |-> ""]

\* a request that has arrived and whose handler has not run yet
NewRequest(body, ai) ==
    [body |-> body, ai |-> ai, pc |-> "start", emotion_text |-> <<>>,
     calledAI |-> FALSE, calledSimple |-> FALSE, path |-> "none",
     interpretation |-> Null, response |-> NoResponse]

NoCall == [fn |-> "none", done |-> FALSE]

\* jsonify({'error': ...}), status
ErrorResponse(status, error) == [NoResponse EXCEPT !.status = status, !.error = error]

\* mutant of PatternCell: one module-level dictionary serves every call
PatternCell_shared(r) == 1

\* the dictionary cell a call allocates for the request's pattern: a fresh
\* dictionary for each call
PatternCell(r) == r

\* the classes `except Exception` catches
ExceptionClasses ==
    {"ValueError", "TypeError", "OverflowError", "JSONDecodeError", "AttributeError",
     "BadRequest", "ServiceError"}

\* mutant of InnerExcept: only ValueError is caught around the AI call
InnerExcept_value_error(exc) == exc = "ValueError"

\* `except Exception` around analyze_emotion_with_ai in the handler
InnerExcept(exc) == exc \in ExceptionClasses

\* `except Exception` around the parsing in analyze_emotion_with_ai
ParseExcept(exc) == exc \in ExceptionClasses

\* request.get_json() and data.get('emotion', '').strip(): the stripped text,
\* or the exception raised
ReadEmotion(body) ==
    IF body.k = "invalid" THEN Raise("BadRequest")
    ELSE IF body.k = "value" THEN Raise("AttributeError")
    ELSE LET emotion == IF body.has THEN body.emo ELSE Str(<<>>)
         IN  IF emotion.t = "str" THEN Ret(strip(emotion.s))
             ELSE Raise("AttributeError")

-----------------------------------------------------------------------------
(* The handler generate_emotion_pattern, one action per step of a request *)

\* get the request data; reject an empty text; any exception ends in the 500
Receive(r) ==
    /\ req[r].pc = "start"
    /\ LET got == ReadEmotion(req[r].body)
       IN  req' = [req EXCEPT ![r] =
             IF got.exc # "none"
             THEN [@ EXCEPT !.pc = "done",
                            !.response = ErrorResponse(500, "Failed to generate pattern")]
             ELSE IF got.val = <<>>
             THEN [@ EXCEPT !.pc = "done",
                            !.response = ErrorResponse(400, "Please provide emotion text")]
             ELSE [@ EXCEPT !.pc = "check_model", !.emotion_text = got.val]]
    /\ UNCHANGED <<model, heap, call>>

\* if model: ... else: analyze_emotion_simple
CheckModel(r) ==
    /\ req[r].pc = "check_model"
    /\ req' = [req EXCEPT ![r] =
         IF model THEN [@ EXCEPT !.pc = "ai_call", !.calledAI = TRUE]
         ELSE [@ EXCEPT !.pc = "simple"]]
    /\ UNCHANGED <<model, heap, call>>

\* model.generate_content raises (or response.text does)
AIRaise(r) ==
    /\ req[r].pc = "ai_call"
    /\ req[r].ai.kind = "raise"
    /\ req' = [req EXCEPT ![r] =
         IF InnerExcept(req[r].ai.exc) THEN [@ EXCEPT !.pc = "simple"]
         ELSE [@ EXCEPT !.pc = "done",
                        !.response = ErrorResponse(500, "Failed to generate pattern")]]
    /\ UNCHANGED <<model, heap, call>>

\* model.generate_content returns; the response text is parsed and validated
AIReturn(r) ==
    /\ req[r].pc = "ai_call"
    /\ req[r].ai.kind = "return"
    /\ LET parsed == ParseAIResponse(req[r].emotion_text, req[r].ai.resp)
       IN  IF parsed.exc = "none"
           THEN /\ heap' = [heap EXCEPT ![PatternCell(r)] = parsed.val.pattern]
                /\ req' = [req EXCEPT ![r] =
                     [@ EXCEPT !.pc = "respond", !.path = "ai",
                               !.interpretation = parsed.val.interpretation]]
           ELSE /\ heap' = heap
                /\ req' = [req EXCEPT ![r] =
                     IF ParseExcept(parsed.exc) \/ InnerExcept(parsed.exc)
                     THEN [@ EXCEPT !.pc = "simple"]
                     ELSE [@ EXCEPT !.pc = "done",
                             !.response = ErrorResponse(500, "Failed to generate pattern")]]
    /\ UNCHANGED <<model, call>>

\* analyze_emotion_simple, up to the if / elif chain: the default dictionary
\* and the default interpretation
SimpleAlloc(r) ==
    /\ req[r].pc = "simple"
    /\ heap' = [heap EXCEPT ![PatternCell(r)] = DefaultPattern]
    /\ req' = [req EXCEPT ![r] =
         [@ EXCEPT !.pc = "simple_chain", !.calledSimple = TRUE,
                   !.interpretation = DefaultInterpretation(req[r].emotion_text)]]
    /\ UNCHANGED <<model, call>>

\* analyze_emotion_simple, the if / elif chain and the return
SimpleChain(r) ==
    /\ req[r].pc = "simple_chain"
    /\ LET k == CategoryOf(lower(req[r].emotion_text))
       IN  /\ heap' = [heap EXCEPT ![PatternCell(r)] = Override(@, k)]
           /\ req' = [req EXCEPT ![r] =
                [@ EXCEPT !.pc = "respond", !.path = "simple",
                          !.interpretation = Interpretation(@, k)]]
    /\ UNCHANGED <<model, call>>

\* return jsonify({'success': True, ...})
Respond(r) ==
    /\ req[r].pc = "respond"
    /\ req' = [req EXCEPT ![r] =
         [@ EXCEPT !.pc = "done",
                   !.response = [status |-> 200, success |-> TRUE,
                                 emotion |-> req[r].emotion_text,
                                 pattern |-> heap[PatternCell(r)],
                                 interpretation |-> req[r].interpretation,
                                 ai_used |-> model,
                                 error |-> ""]]]
    /\ UNCHANGED <<model, heap, call>>

Next ==
    \/ \E r \in DOMAIN req : Receive(r)
    \/ \E r \in DOMAIN req : CheckModel(r)
    \/ \E r \in DOMAIN req : AIRaise(r)
    \/ \E r \in DOMAIN req : AIReturn(r)
    \/ \E r \in DOMAIN req : SimpleAlloc(r)
    \/ \E r \in DOMAIN req : SimpleChain(r)
    \/ \E r \in DOMAIN req : Respond(r)

\* one request, every body and every behaviour of the AI call
Init ==
    /\ model \in BOOLEAN
    /\ \E body \in Bodies, ai \in AIOutcomes : req = [r \in {1} |-> NewRequest(body, ai)]
    /\ heap = [r \in {1} |-> NoPattern]
    /\ call = NoCall

Spec == Init /\ [][Next]_vars

\* behaviours of the AI call for the liveness check: it never returns, it
\* raises, it returns the requested object, it returns prose
LiveOutcomes ==
    { AIOutcome("hang", "none", <<>>),
      AIOutcome("raise", "ServiceError", <<>>),
      AIOutcome("return", "none", <<Prose, LBrace, Member("speed", Num(120)), RBrace>>),
      AIOutcome("return", "none", <<Prose>>) }

InitLive ==
    /\ model \in BOOLEAN
    /\ \E body \in Bodies, ai \in LiveOutcomes : req = [r \in {1} |-> NewRequest(body, ai)]
    /\ heap = [r \in {1} |-> NoPattern]
    /\ call = NoCall

\* the handler's steps are taken, and a call that raises or returns does so
SpecLive == InitLive /\ [][Next]_vars /\ WF_vars(Next)

-----------------------------------------------------------------------------
(* Concurrent requests: the handler's steps of several requests interleave *)

ConcBodies ==
    {Body("object", TRUE, Str(t)) :
        t \in {<<"s", "a", "d">>, <<"r", "a", "g", "e">>, <<"o", "k">>}}

ConcOutcomes ==
    { AIOutcome("raise", "ServiceError", <<>>),
      AIOutcome("return", "none",
                <<LBrace, Member("speed", Num(9900)), Member("behavior", Spiral), RBrace>>) }

InitConc ==
    /\ model \in BOOLEAN
    /\ req \in [1..NumRequests -> {NewRequest(body, ai) : body \in ConcBodies, ai \in ConcOutcomes}]
    /\ heap = [r \in 1..NumRequests |-> NoPattern]
    /\ call = NoCall

SpecConc == InitConc /\ [][Next]_vars

-----------------------------------------------------------------------------
(* safe_float on its own: every value at every call site *)

\* (default, min_val, max_val) of the four calls and of the declaration
FloatSites ==
    { <<Fin(100), Fin(20), Fin(200)>>,
      <<Fin(12), Fin(0), Fin(30)>>,
      <<Fin(2500), Fin(1000), Fin(6000)>>,
      <<Fin(30), Fin(0), Fin(100)>>,
      <<Fin(50), Fin(0), Fin(200)>> }

FloatValues ==
    RawValues \cup {Num(20), Num(200), Num(1000), Num(6000), Num(-1), Num(6001),
                    Str(<<"99">>), Str(<<"-3">>), Str(<<"inf">>)}

InitFloat ==
    /\ model = FALSE
    /\ req = <<>>
    /\ heap = <<>>
    /\ \E value \in FloatValues, site \in FloatSites :
          call = [fn |-> "safe_float", done |-> FALSE, value |-> value,
                  default |-> site[1], min_val |-> site[2], max_val |-> site[3],
                  ret |-> Raise("none")]

CallSafeFloat ==
    /\ call.fn = "safe_float"
    /\ ~call.done
    /\ call' = [call EXCEPT !.done = TRUE,
                            !.ret = safe_float(call.value, call.default,
                                               call.min_val, call.max_val)]
    /\ UNCHANGED <<model, req, heap>>

NextFloat == CallSafeFloat

SpecFloat == InitFloat /\ [][NextFloat]_vars

-----------------------------------------------------------------------------
(* analyze_emotion_simple on its own: texts put together from fragments *)

Fragments ==
    { <<"w", "i", "l", "d">>,
      <<"A", "n", "g", "r", "y">>,
      <<"r", "a", "g", "e">>,
      <<"j", "o", "y">>,
      <<"s", "a", "d">>,
      <<"f", "e", "a", "r">>,
      <<"l", "o", "v", "e">>,
      <<"c", "a", "l", "m">>,
      <<"l", "o", "s", "t">>,
      <<"e", "n">>,
      <<" ">> }

RECURSIVE FragmentTexts(_)
FragmentTexts(n) ==
    IF n = 0 THEN {<<>>}
    ELSE FragmentTexts(n - 1) \cup {t \o f : t \in FragmentTexts(n - 1), f \in Fragments}

InitSimple ==
    /\ model = FALSE
    /\ req = <<>>
    /\ heap = <<>>
    /\ \E text \in FragmentTexts(MaxFragments) :
          call = [fn |-> "analyze_emotion_simple", done |-> FALSE, text |-> text,
                  ret |-> [pattern |-> NoPattern, interpretation |-> Null]]

CallSimple ==
    /\ call.fn = "analyze_emotion_simple"
    /\ ~call.done
    /\ call' = [call EXCEPT !.done = TRUE, !.ret = analyze_emotion_simple(call.text)]
    /\ UNCHANGED <<model, req, heap>>

NextSimple == CallSimple

SpecSimple == InitSimple /\ [][NextSimple]_vars

-----------------------------------------------------------------------------
(* Properties *)

Done(r) == req[r].pc = "done"
Success(r) == Done(r) /\ req[r].response.status = 200

\* the float f is a finite number within [lo, hi]
InRange(f, lo, hi) == f.c = "fin" /\ lo <= f.v /\ f.v <= hi

\* the body carries an emotion string with a character that is no whitespace
NonEmptyText(body) ==
    /\ body.k = "object" /\ body.has /\ body.emo.t = "str"
    /\ \E i \in 1..Len(body.emo.s) : body.emo.s[i] \notin Whitespace

\* the body carries an emotion string that is empty or all whitespace
BlankText(body) ==
    /\ body.k = "object" /\ body.has /\ body.emo.t = "str"
    /\ \A i \in 1..Len(body.emo.s) : body.emo.s[i] \in Whitespace

\* the emotion field is absent, null or no string, or the body is no JSON object
Malformed(body) ==
    \/ body.k \in {"invalid", "value"}
    \/ body.k = "object" /\ ~body.has
    \/ body.k = "object" /\ body.has /\ body.emo.t # "str"

\* the AI path of request r fails: the call raises, or its text yields no pattern
AIFails(r) ==
    /\ model
    /\ \/ req[r].ai.kind = "raise"
       \/ /\ req[r].ai.kind = "return"
          /\ \/ \A i \in 1..Len(req[r].ai.resp) : req[r].ai.resp[i].tok # "{"
             \/ \A i \in 1..Len(req[r].ai.resp) : req[r].ai.resp[i].tok # "}"
             \/ ParseAIResponse(strip(req[r].body.emo.s), req[r].ai.resp).exc # "none"

\* C1: every successful response, whichever path produced it and whatever the
\* AI returned, has speed in [0.2, 2.0], cohesion in [0.0, 0.3], separation in
\* [10, 60], curve in [0.0, 1.0] and behavior in {standard, predator, swarm,
\* spiral}.
C1_PatternInRange ==
    \A r \in DOMAIN req :
        Success(r) =>
            LET p == req[r].response.pattern
            IN  /\ InRange(p.speed, 20, 200)
                /\ InRange(p.cohesion, 0, 30)
                /\ InRange(p.separation, 1000, 6000)
                /\ InRange(p.curve, 0, 100)
                /\ p.behavior \in {Str(<<"standard">>), Str(<<"predator">>),
                                   Str(<<"swarm">>), Str(<<"spiral">>)}

\* the AI answered {"speed": 99, "behavior": "unknown"} and the response built
\* from it holds speed 2.0 and behavior standard
C1_Witness ==
    \E r \in DOMAIN req :
        /\ Success(r)
        /\ req[r].path = "ai"
        /\ req[r].ai.resp = <<LBrace, Member("speed", Num(9900)),
                              Member("behavior", Str(<<"unknown">>)), RBrace>>
        /\ req[r].response.pattern.speed = Fin(200)
        /\ req[r].response.pattern.behavior = Standard

\* C2: a request with a text that is non-empty after trimming always ends in a
\* success response, whatever the AI call does, and never in an error; when
\* the AI path fails the pattern is the rule-based classifier's.
C2_NonEmptyTextSucceeds ==
    \A r \in DOMAIN req :
        NonEmptyText(req[r].body) =>
            /\ req[r].response.status \in {0, 200}
            /\ Done(r) => /\ req[r].response.success
                          /\ req[r].response.error = ""
            /\ (Done(r) /\ AIFails(r)) =>
                  /\ req[r].path = "simple"
                  /\ req[r].calledSimple
                  /\ req[r].response.pattern =
                        analyze_emotion_simple(strip(req[r].body.emo.s)).pattern
                  /\ req[r].response.interpretation =
                        analyze_emotion_simple(strip(req[r].body.emo.s)).interpretation

\* the AI call raised a service error and the request was answered with the
\* classifier's pattern
C2_Witness ==
    \E r \in DOMAIN req :
        /\ Success(r)
        /\ model
        /\ req[r].ai.kind = "raise"
        /\ req[r].ai.exc = "ServiceError"
        /\ req[r].path = "simple"

\* C3: ai_used is true exactly when the returned pattern was built from the
\* AI's parsed output, and false when the rule-based classifier produced it.
C3_ProvenanceIsPath ==
    \A r \in DOMAIN req :
        Success(r) => (req[r].response.ai_used <=> req[r].path = "ai")

\* C4: a request whose emotion field is missing or malformed gets a 4xx
\* response, never a 5xx one.
C4_MalformedIsClientError ==
    \A r \in DOMAIN req :
        (Done(r) /\ Malformed(req[r].body)) =>
            /\ req[r].response.status >= 400
            /\ req[r].response.status <= 499

\* C5: a request whose emotion text is empty or all whitespace is answered with
\* the 400 error; neither the AI generator nor the classifier is invoked for it
\* and no pattern is returned.
C5_BlankTextRejected ==
    \A r \in DOMAIN req :
        BlankText(req[r].body) =>
            /\ req[r].pc \in {"start", "done"}
            /\ ~req[r].calledAI
            /\ ~req[r].calledSimple
            /\ req[r].path = "none"
            /\ Done(r) => /\ req[r].response.status = 400
                          /\ ~req[r].response.success
                          /\ req[r].response.error # ""
                          /\ req[r].response.pattern = NoPattern

\* a text of three whitespace characters was answered with the 400
C5_Witness ==
    \E r \in DOMAIN req :
        /\ Done(r)
        /\ req[r].body = Body("object", TRUE, Str(<<" ", "\t", "\n">>))
        /\ req[r].response.status = 400

\* C9: the interpretation of every returned result is a non-empty string.
C9_InterpretationNonEmpty ==
    \A r \in DOMAIN req :
        Success(r) =>
            /\ req[r].response.interpretation.t = "str"
            /\ req[r].response.interpretation.s # <<>>

\* C8: every request with a non-empty emotion text eventually receives a
\* response.
C8_EveryRequestAnswered ==
    <>(\A r \in DOMAIN req : NonEmptyText(req[r].body) => Done(r))

\* a value the claim counts as numeric: a number of the JSON document
NumericValue(value) == value.t \in {"num", "bigint", "nan", "inf", "neginf"}

\* a value the claim counts as non-numeric or missing: None, a string that is
\* no number, a list or an object, a boolean
NonNumericValue(value) ==
    \/ value.t \in {"null", "list", "object", "bool"}
    \/ value.t = "str" /\ ParseFloatStr(value.s).exc # "none"

\* C7: safe_float never raises; a numeric value gives a value within
\* [min_val, max_val]; a non-numeric or missing value (None, an unparseable
\* string, a list or object, a boolean) gives default.
C7_SafeFloatTotal ==
    call.done =>
        /\ call.ret.exc = "none"
        /\ NumericValue(call.value) =>
              /\ call.ret.val.c = "fin"
              /\ call.min_val.v <= call.ret.val.v
              /\ call.ret.val.v <= call.max_val.v
        /\ NonNumericValue(call.value) => call.ret.val = call.default

\* word occurs in text, whatever the case of the text's letters
OccursIgnoringCase(text, word) ==
    \E i \in 1..(Len(text) - Len(word) + 1) :
        \A j \in 1..Len(word) : LowerChar(text[i + j - 1]) = word[j]

\* category k (1: high-energy, 2: anger, 3: sadness, 4: anxiety, 5: love,
\* 6: joy, 7: calm, 8: confusion) has a keyword in the text
HasKeyword(text, k) == \E word \in Keywords[k] : OccursIgnoringCase(text, word)

\* the fixed result of each category: speed, cohesion, separation, curve (each
\* times 100), behavior, interpretation
CategoryTable ==
    << <<180, 12, 2500, 80, "swarm", "High energy, chaotic movement">>,
       <<150, 12, 4500, 30, "predator", "Aggressive, confrontational movement">>,
       <<40, 5, 2500, 10, "standard", "Slow, isolated, downward movement">>,
       <<120, 12, 3500, 60, "predator", "Nervous, erratic, avoidant movement">>,
       <<90, 25, 1500, 30, "standard", "Gentle, clustering, harmonious movement">>,
       <<130, 18, 2500, 50, "swarm", "Joyful, bouncy, grouped movement">>,
       <<60, 8, 2500, 20, "standard", "Slow, peaceful, flowing movement">>,
       <<100, 12, 2000, 90, "spiral", "Chaotic, unpredictable movement">> >>

\* the result is row `row` of the table
IsRow(ret, row) ==
    /\ ret.pattern.speed = Fin(row[1])
    /\ ret.pattern.cohesion = Fin(row[2])
    /\ ret.pattern.separation = Fin(row[3])
    /\ ret.pattern.curve = Fin(row[4])
    /\ ret.pattern.behavior = Str(<<row[5]>>)
    /\ ret.interpretation = Str(<<row[6]>>)

\* the result is that of the earliest category with a keyword in the text, and
\* the default pattern when there is none
EarliestCategoryWins ==
    /\ \A k \in 1..8 :
          (HasKeyword(call.text, k) /\ \A j \in 1..(k - 1) : ~HasKeyword(call.text, j))
              => IsRow(call.ret, CategoryTable[k])
    /\ (\A k \in 1..8 : ~HasKeyword(call.text, k)) =>
          /\ call.ret.pattern.speed = Fin(80)
          /\ call.ret.pattern.cohesion = Fin(12)
          /\ call.ret.pattern.separation = Fin(2500)
          /\ call.ret.pattern.curve = Fin(30)
          /\ call.ret.pattern.behavior = Str(<<"standard">>)
          /\ call.ret.interpretation.t = "str"
          /\ call.ret.interpretation.s = <<"Simple pattern for '">> \o call.text \o <<"'">>

\* the result is the anger pattern: speed 1.5, separation 45, behavior predator
IsAngerPattern(ret) ==
    /\ ret.pattern.speed = Fin(150)
    /\ ret.pattern.separation = Fin(4500)
    /\ ret.pattern.behavior = Str(<<"predator">>)

\* C6 as stated: analyze_emotion_simple returns the fixed pattern and
\* interpretation of the earliest category with a keyword in the lower-cased
\* text, the default pattern when no category matches, and every text with both
\* an anger and a joy keyword gets the anger pattern.
C6_AsStated ==
    call.done =>
        /\ EarliestCategoryWins
        /\ (HasKeyword(call.text, 2) /\ HasKeyword(call.text, 6)) => IsAngerPattern(call.ret)

\* C6 as amended: the same, and every text with both an anger and a joy keyword
\* and no high-energy keyword gets the anger pattern.
C6_EarliestCategory ==
    call.done =>
        /\ EarliestCategoryWins
        /\ (HasKeyword(call.text, 2) /\ HasKeyword(call.text, 6) /\ ~HasKeyword(call.text, 1))
              => IsAngerPattern(call.ret)

\* a text with an anger and a joy keyword and no high-energy keyword was
\* classified, as anger
C6_Witness ==
    /\ call.fn = "analyze_emotion_simple"
    /\ call.done
    /\ HasKeyword(call.text, 2)
    /\ HasKeyword(call.text, 6)
    /\ ~HasKeyword(call.text, 1)
    /\ IsRow(call.ret, CategoryTable[2])

\* the response request r gets when it is the only request: the handler run
\* from its first line to its return on r's body and r's AI behaviour
Alone(m, body, ai) ==
    LET got == ReadEmotion(body)
        parsed == ParseAIResponse(got.val, ai.resp)
        simple == analyze_emotion_simple(got.val)
        ok(result) == [status |-> 200, success |-> TRUE, emotion |-> got.val,
                       pattern |-> result.pattern,
                       interpretation |-> result.interpretation,
                       ai_used |-> m, error |-> ""]
    IN  IF got.exc # "none" THEN ErrorResponse(500, "Failed to generate pattern")
        ELSE IF got.val = <<>> THEN ErrorResponse(400, "Please provide emotion text")
        ELSE IF m /\ ai.kind = "return" /\ parsed.exc = "none" THEN ok(parsed.val)
        ELSE ok(simple)

\* C10: under any interleaving of concurrent requests, each request's result is
\* the one it would get if it ran alone, and the dictionary a request's
\* classifier call is filling holds only that request's overrides.
C10_ResultAsAlone ==
    \A r \in DOMAIN req :
        /\ Done(r) => req[r].response = Alone(model, req[r].body, req[r].ai)
        /\ req[r].pc = "simple_chain" => heap[r] = DefaultPattern

\* two requests of different categories were both answered by the classifier
C10_Witness ==
    \E r1, r2 \in DOMAIN req :
        /\ r1 # r2
        /\ Success(r1) /\ Success(r2)
        /\ req[r1].path = "simple" /\ req[r2].path = "simple"
        /\ req[r1].response.pattern.behavior = Predator
        /\ req[r2].response.pattern.cohesion = Fin(5)

=============================================================================
